---- MODULE Spec2Model ----
(***************************************************************************)
(* Model of app_valutazione_xbrl.py: the numeric normalizer                *)
(* pulisci_valore_numerico and the extraction function estrai_dati_xbrl    *)
(* (file passes, alias resolution, reporting year, derived ratios).        *)
(*                                                                         *)
(* Representation.                                                         *)
(*   - A text is a sequence of one-character strings.  ElementTree's       *)
(*     text None is the empty sequence: every use in the source tests the  *)
(*     text for truth first, so None and "" are not told apart.            *)
(*   - A tag (elem.tag, "{uri}local") and an alias are sequences of        *)
(*     name parts; str.endswith and the substring test "in" are the        *)
(*     suffix and the contiguous-subsequence tests on these sequences.     *)
(*   - Python's None for a value is the empty tuple <<>>.  A float is an   *)
(*     exact fraction <<n, d>> in lowest terms with d > 0 (rounding of     *)
(*     binary floating point is not modelled).  A year is <<y>>.           *)
(***************************************************************************)
EXTENDS Integers, Sequences, FiniteSets, TLC

VARIABLES
    doc,      \* the uploaded file's content: [ok, xmlns, items]
    pos,      \* the file object's read position, 0 .. FileSize(doc)
    pc,       \* the statement estrai_dati_xbrl / the normalizer is at
    root,     \* root.iter() of the tree of the last successful parse
    loc,      \* the local variables of estrai_dati_xbrl (lines 138-190)
    ret,      \* "" while running, then "sheet" or "None"
    sheet,    \* the returned dict (lines 192-207) when ret = "sheet"
    err,      \* "" or the except clause taken: "ParseError", "Exception"
    text,     \* the argument of pulisci_valore_numerico (normalizer runs)
    valore    \* its result

vars == <<doc, pos, pc, root, loc, ret, sheet, err, text, valore>>

None == <<>>

----------------------------------------------------------------------------
\* Bounds of the model.

\* Longest text given to the normalizer in the normalizer runs.
MaxLen == 3

\* Most items (contexts and facts) of a document.
MaxItems == 3

----------------------------------------------------------------------------
\* Characters and exact arithmetic.

Digits == {"0", "1", "2", "3", "4", "5", "6", "7", "8", "9"}

DigitVal(c) ==
    CASE c = "0" -> 0 [] c = "1" -> 1 [] c = "2" -> 2 [] c = "3" -> 3
      [] c = "4" -> 4 [] c = "5" -> 5 [] c = "6" -> 6 [] c = "7" -> 7
      [] c = "8" -> 8 [] c = "9" -> 9

Whitespace == {" "}

RECURSIVE Pow10(_)
Pow10(k) == IF k = 0 THEN 1 ELSE 10 * Pow10(k - 1)

Abs(x) == IF x < 0 THEN -x ELSE x

RECURSIVE Gcd(_, _)
Gcd(a, b) == IF b = 0 THEN a ELSE Gcd(b, a % b)

\* The fraction n/d (d # 0) in lowest terms with a positive denominator.
Rat(n, d) ==
    LET g == Gcd(Abs(n), Abs(d))
        s == IF d < 0 THEN -1 ELSE 1
    IN  <<(s * n) \div g, (s * d) \div g>>

RatAdd(a, b) == Rat(a[1] * b[2] + b[1] * a[2], a[2] * b[2])
RatMul(a, b) == Rat(a[1] * b[1], a[2] * b[2])
RatDiv(a, b) == Rat(a[1] * b[2], a[2] * b[1])
Zero == <<0, 1>>
Hundred == <<100, 1>>

\* Python's "x or 0" for a float or None.
OrZero(x) == IF x = None \/ x = Zero THEN Zero ELSE x

----------------------------------------------------------------------------
\* str methods on texts.

\* s restricted to the characters of the set S, in order.
RECURSIVE SelectChars(_, _)
SelectChars(s, S) ==
    IF s = <<>> THEN <<>>
    ELSE IF Head(s) \in S THEN <<Head(s)>> \o SelectChars(Tail(s), S)
    ELSE SelectChars(Tail(s), S)

\* s without the characters of the set S (str.replace(c, "")).
RECURSIVE RemoveChars(_, _)
RemoveChars(s, S) ==
    IF s = <<>> THEN <<>>
    ELSE IF Head(s) \in S THEN RemoveChars(Tail(s), S)
    ELSE <<Head(s)>> \o RemoveChars(Tail(s), S)

RECURSIVE LStrip(_)
LStrip(s) ==
    IF s # <<>> /\ Head(s) \in Whitespace THEN LStrip(Tail(s)) ELSE s

RECURSIVE RStrip(_)
RStrip(s) ==
    IF s # <<>> /\ s[Len(s)] \in Whitespace
    THEN RStrip(SubSeq(s, 1, Len(s) - 1)) ELSE s

\* str.strip()
Strip(s) == RStrip(LStrip(s))

\* s.replace(".", "").replace(",", ".")
EuropeanToDecimal(s) ==
    LET noDots == RemoveChars(s, {"."})
    IN  [i \in 1..Len(noDots) |-> IF noDots[i] = "," THEN "." ELSE noDots[i]]

\* re.sub(r'[^\d\.-]', '', s): every digit, '.' and '-' is kept, wherever
\* it stands.
NumericChars == Digits \cup {".", "-"}

\* Line 38 with the pattern [^\d\.], which drops the minus sign.
StripNonNumeric_NoMinus(s) == SelectChars(s, Digits \cup {"."})

StripNonNumeric(s) == SelectChars(s, NumericChars)

RECURSIVE DigitsToInt(_)
DigitsToInt(s) ==
    IF s = <<>> THEN 0
    ELSE 10 * DigitsToInt(SubSeq(s, 1, Len(s) - 1)) + DigitVal(s[Len(s)])

\* float(s) for a text of digits, '.' and '-': the value, or None where
\* float raises ValueError.  float accepts one optional leading sign, then
\* digits with at most one '.', and at least one digit.
FloatOf(s) ==
    LET neg  == s # <<>> /\ s[1] = "-"
        body == IF neg THEN Tail(s) ELSE s
        dots == SelectChars(body, {"."})
        digs == SelectChars(body, Digits)
        dotAt == IF dots = <<>> THEN Len(body)
                 ELSE CHOOSE i \in 1..Len(body) : body[i] = "."
    IN  IF Len(dots) > 1 \/ digs = <<>> \/ Len(dots) + Len(digs) # Len(body)
        THEN None
        ELSE Rat((IF neg THEN -1 ELSE 1) * DigitsToInt(digs),
                 Pow10(Len(body) - dotAt))

\* pulisci_valore_numerico(text): "if not text" (line 29), the clean-up
\* (lines 34-38), "float(text) if text else None" (line 39) and the
\* except clause (lines 40-41).
pulisci_valore_numerico(t) ==
    IF t = <<>> THEN None
    ELSE LET cleaned == StripNonNumeric(EuropeanToDecimal(Strip(t)))
         IN  IF cleaned = <<>> THEN None ELSE FloatOf(cleaned)

----------------------------------------------------------------------------
\* Tags.  A tag is [ns, local]: the namespace URI and the local name, each
\* a sequence of name parts; elem.tag is the string "{ns}local", or "local"
\* for an element in no namespace.

TagString(tag) ==
    IF tag.ns = <<>> THEN tag.local ELSE <<"{">> \o tag.ns \o <<"}">> \o tag.local

\* s.endswith(p)
EndsWith(s, p) ==
    Len(p) <= Len(s) /\ SubSeq(s, Len(s) - Len(p) + 1, Len(s)) = p

\* p in s
Contains(s, p) ==
    \E i \in 1..(Len(s) - Len(p) + 1) : SubSeq(s, i, i + Len(p) - 1) = p

\* The test of lines 73 and 85:
\* elem.tag.endswith(tag_pattern) or tag_pattern in elem.tag
TagMatches(tag, tag_pattern) ==
    EndsWith(TagString(tag), tag_pattern) \/ Contains(TagString(tag), tag_pattern)

\* tag_mapping (lines 91-135), each alias split into its name parts.
tag_mapping ==
    [ricavi |->
        << <<"ValoreProduzione", "Ricavi", "Vendite", "Prestazioni">>,
           <<"Ricavi", "Vendite", "Prestazioni", "ValoreProduzione", "Anno">>,
           <<"Ricavi", "Vendite">>,
           <<"Ricavi">> >>,
     utile |->
        << <<"Patrimonio", "Netto", "Utile", "Perdita", "Esercizio">>,
           <<"Utile", "Perdita", "Esercizio">>,
           <<"Risultato", "Esercizio">>,
           <<"Utile", "Netto">> >>,
     attivo |->
        << <<"Totale", "Attivo">>,
           <<"Attivo", "Totale">>,
           <<"Totale", "Stato">>,
           <<"Attivo">> >>,
     patrimonio_netto |->
        << <<"Totale", "Patrimonio", "Netto">>,
           <<"Patrimonio", "Netto", "Totale">>,
           <<"Patrimonio", "Netto">> >>,
     debiti_breve |->
        << <<"Debiti", "Debiti", "VersoBancheEsigibili", "Entro", "Esercizio", "Successivo">>,
           <<"Debiti", "Bancari", "Breve", "Termine">>,
           <<"Debiti", "Finanziari", "Breve">> >>,
     debiti_mlt |->
        << <<"Debiti", "Debiti", "VersoBancheEsigibili", "Oltre", "Esercizio", "Successivo">>,
           <<"Debiti", "Bancari", "MedioLungo", "Termine">>,
           <<"Debiti", "Finanziari", "MedioLungo">> >>,
     denominazione |->
        << <<"DatiAnagrafici", "Denominazione">>,
           <<"Denominazione">>,
           <<"RagioneSociale">> >>,
     codice_fiscale |->
        << <<"DatiAnagrafici", "CodiceFiscale">>,
           <<"CodiceFiscale">>,
           <<"CF">> >>]

----------------------------------------------------------------------------
\* Elements and documents.
\*
\* An element is [tag, text, attrib]; attrib is a set of <<name, value>>
\* pairs, the value a text.  A document is a sequence of items under one
\* root element; an item is a context (<context id=..> holding <period>
\* holding <endDate>) or a single element, written [kind, id, text, tag,
\* attrib] with text the end date of a context and the text of a fact.
\* Iter(items) is the order of root.iter(): the root element, then each
\* item's elements in document order.

HasAttr(e, k) == \E a \in e.attrib : a[1] = k
Attr(e, k) == (CHOOSE a \in e.attrib : a[1] = k)[2]

Xbrli == <<"http://www.xbrl.org/2003/instance">>
Itcc == <<"http://www.infocamere.it/itnn/fr/itcc/ci/2018-11-04">>

Elem(ns, local, txt, attrib) ==
    [tag |-> [ns |-> ns, local |-> local], text |-> txt, attrib |-> attrib]

RootElem == Elem(Xbrli, <<"xbrl">>, <<>>, {})

\* Items.  A context is <context id=..><period><endDate>end</endDate>
\* </period></context>; a fact is one element.
Context(id, end) ==
    [kind |-> "context", id |-> id, text |-> end,
     tag |-> [ns |-> Xbrli, local |-> <<"context">>], attrib |-> {}]

Fact(ns, local, txt, attrib) ==
    [kind |-> "fact", id |-> <<>>, text |-> txt,
     tag |-> [ns |-> ns, local |-> local], attrib |-> attrib]

\* The elements of an item, in document order.
ItemElems(item) ==
    IF item.kind = "context"
    THEN << Elem(Xbrli, <<"context">>, <<>>, {<<"id", item.id>>}),
            Elem(Xbrli, <<"period">>, <<>>, {}),
            Elem(Xbrli, <<"endDate">>, item.text, {}) >>
    ELSE << [tag |-> item.tag, text |-> item.text, attrib |-> item.attrib] >>

ContextRef(id) == {<<"contextRef", id>>}

C1Id == <<"c", "1">>
C2Id == <<"c", "2">>
C3Id == <<"c", "3">>
Date2022 == <<"2", "0", "2", "2", "-", "1", "2", "-", "3", "1">>
Date2023 == <<"2", "0", "2", "3", "-", "1", "2", "-", "3", "1">>
NotADate == <<"n", ".", "d", ".">>

\* The items documents are built from.
ItemPool ==
    { Context(C1Id, Date2022),
      Context(C2Id, Date2023),
      Context(C3Id, NotADate),
      \* net income of the earlier period
      Fact(Itcc, <<"Patrimonio", "Netto", "Utile", "Perdita", "Esercizio">>,
           <<"5">>, ContextRef(C1Id)),
      \* equity: a number, not a number, zero
      Fact(Itcc, <<"Totale", "Patrimonio", "Netto">>, <<"1", "0">>, ContextRef(C2Id)),
      Fact(Itcc, <<"Totale", "Patrimonio", "Netto">>, NotADate, ContextRef(C2Id)),
      Fact(Itcc, <<"Patrimonio", "Netto">>, <<"0">>, ContextRef(C2Id)),
      \* total assets: a number in the European format, zero
      Fact(Itcc, <<"Totale", "Attivo">>, <<"1", ".", "0", "0", "0", ",", "5">>,
           ContextRef(C2Id)),
      Fact(Itcc, <<"Attivo">>, <<"0", ",", "0">>, ContextRef(C2Id)),
      \* short-term and long-term debt
      Fact(Itcc, <<"Debiti", "Bancari", "Breve", "Termine">>, <<"3">>, ContextRef(C2Id)),
      Fact(Itcc, <<"Debiti", "Finanziari", "MedioLungo">>, <<"-", "4">>, {}),
      \* an element whose namespace URI holds an alias
      Fact(<<"http://example.org/", "Attivo">>, <<"Altro">>, <<"9">>, ContextRef(C2Id)),
      \* the company name
      Fact(Itcc, <<"DatiAnagrafici", "Denominazione">>, <<" ", "a", " ">>, {}),
      \* an element carrying the date as an attribute
      Fact(<<>>, <<"periodo">>, <<>>, {<<"endDate", <<"2", "0", "2", "1">>>>}) }

RECURSIVE ItemSeqs(_)
ItemSeqs(n) ==
    IF n = 0 THEN {<<>>}
    ELSE LET shorter == ItemSeqs(n - 1)
         IN  shorter \cup {Append(s, i) : s \in shorter, i \in ItemPool}

RECURSIVE Elems(_)
Elems(items) ==
    IF items = <<>> THEN <<>> ELSE ItemElems(Head(items)) \o Elems(Tail(items))

Iter(items) == <<RootElem>> \o Elems(items)

\* The file: FileSize is the position of end-of-file.
FileSize(d) == 1 + Len(d.items)

\* Whether the document declares a namespace (a start-ns event): stated by
\* the document, and implied by any element in a namespace.
DeclaresNamespace(d) ==
    d.xmlns \/ \E i \in 1..Len(Iter(d.items)) : Iter(d.items)[i].tag.ns # <<>>

\* Whether a parser reading d from position p to end-of-file finds a
\* well-formed document: only the whole of a well-formed file is one, and
\* a read at end-of-file yields nothing ("no element found").
ParsesFrom(d, p) == p = 0 /\ d.ok

----------------------------------------------------------------------------
\* The closures of estrai_dati_xbrl over root.

\* Lines 72-76 stopping at the first matching element that has text, whether
\* or not the text normalizes.
RECURSIVE FirstValue_StopAtText(_, _)
FirstValue_StopAtText(elems, tag_pattern) ==
    IF elems = <<>> THEN None
    ELSE IF TagMatches(Head(elems).tag, tag_pattern)
            /\ Strip(Head(elems).text) # <<>>
         THEN pulisci_valore_numerico(Head(elems).text)
         ELSE FirstValue_StopAtText(Tail(elems), tag_pattern)

\* The inner loop of lines 72-76 over the elements left: the value of the
\* first matching element whose text normalizes, or None.
RECURSIVE FirstValue(_, _)
FirstValue(elems, tag_pattern) ==
    IF elems = <<>> THEN None
    ELSE IF TagMatches(Head(elems).tag, tag_pattern)
            /\ pulisci_valore_numerico(Head(elems).text) # None
         THEN pulisci_valore_numerico(Head(elems).text)
         ELSE FirstValue(Tail(elems), tag_pattern)

\* trova_valore_con_namespace (lines 66-77), root passed explicitly.
RECURSIVE trova_valore_con_namespace(_, _)
trova_valore_con_namespace(r, possibili_tag) ==
    IF possibili_tag = <<>> THEN None
    ELSE IF FirstValue(r, Head(possibili_tag)) # None
         THEN FirstValue(r, Head(possibili_tag))
         ELSE trova_valore_con_namespace(r, Tail(possibili_tag))

\* The inner loop of lines 84-87.
RECURSIVE FirstText(_, _)
FirstText(elems, tag_pattern) ==
    IF elems = <<>> THEN None
    ELSE IF TagMatches(Head(elems).tag, tag_pattern)
            /\ Strip(Head(elems).text) # <<>>
         THEN Strip(Head(elems).text)
         ELSE FirstText(Tail(elems), tag_pattern)

\* trova_testo_con_namespace (lines 79-88).
RECURSIVE trova_testo_con_namespace(_, _)
trova_testo_con_namespace(r, possibili_tag) ==
    IF possibili_tag = <<>> THEN None
    ELSE IF FirstText(r, Head(possibili_tag)) # None
         THEN FirstText(r, Head(possibili_tag))
         ELSE trova_testo_con_namespace(r, Tail(possibili_tag))

\* s[:4]
Prefix4(s) == SubSeq(s, 1, IF Len(s) < 4 THEN Len(s) ELSE 4)

\* int(s): <<value>>, or None where int raises ValueError.  int accepts
\* surrounding whitespace and one sign before the digits.
IntOf(s) ==
    LET t == Strip(s)
        signed == t # <<>> /\ t[1] \in {"-", "+"}
        body == IF signed THEN Tail(t) ELSE t
    IN  IF body = <<>> \/ \E i \in 1..Len(body) : body[i] \notin Digits
        THEN None
        ELSE <<(IF signed /\ t[1] = "-" THEN -1 ELSE 1) * DigitsToInt(body)>>

\* The loop of lines 149-171 over the elements left: the year of the first
\* element, in document order, that carries a date whose first four
\* characters are an integer.
RECURSIVE AnnoFrom(_)
AnnoFrom(elems) ==
    IF elems = <<>> THEN None
    ELSE LET e == Head(elems)
             rest == Tail(elems)
         IN  IF HasAttr(e, "instant")
             THEN IF IntOf(Prefix4(Attr(e, "instant"))) # None
                  THEN IntOf(Prefix4(Attr(e, "instant")))
                  ELSE AnnoFrom(rest)
             ELSE IF HasAttr(e, "endDate")
             THEN IF IntOf(Prefix4(Attr(e, "endDate"))) # None
                  THEN IntOf(Prefix4(Attr(e, "endDate")))
                  ELSE AnnoFrom(rest)
             ELSE IF EndsWith(TagString(e.tag), <<"instant">>)
                     \/ EndsWith(TagString(e.tag), <<"endDate">>)
             THEN IF e.text # <<>> /\ IntOf(Prefix4(e.text)) # None
                  THEN IntOf(Prefix4(e.text))
                  ELSE AnnoFrom(rest)
             ELSE AnnoFrom(rest)

\* Lines 174-176 with "and" for "or" in the test of line 175.
debiti_totali_BothRequired(debiti_breve, debiti_mlt) ==
    IF debiti_breve # None /\ debiti_mlt # None
    THEN RatAdd(OrZero(debiti_breve), OrZero(debiti_mlt))
    ELSE None

\* Lines 174-176.
debiti_totali(debiti_breve, debiti_mlt) ==
    IF debiti_breve # None \/ debiti_mlt # None
    THEN RatAdd(OrZero(debiti_breve), OrZero(debiti_mlt))
    ELSE None

\* Python's a / b on floats: the quotient, or ZeroDivisionError raised.
ZeroDivisionError == <<0, 0, 0>>

Divide(a, b) == IF b = Zero THEN ZeroDivisionError ELSE RatDiv(a, b)

Times100(q) == IF q = ZeroDivisionError THEN q ELSE RatMul(q, Hundred)

\* Lines 183-187 without the "!= 0" test.
indice_percentuale_NoZeroTest(utile, denominatore) ==
    IF utile # None /\ denominatore # None
    THEN Times100(Divide(utile, denominatore))
    ELSE None

\* Lines 183-184 and 186-187: (utile / denominatore) * 100, guarded.
indice_percentuale(utile, denominatore) ==
    IF utile # None /\ denominatore # None /\ denominatore # Zero
    THEN Times100(Divide(utile, denominatore))
    ELSE None

\* Lines 189-190.
debt_to_equity(totali, patrimonio_netto) ==
    IF totali # None /\ patrimonio_netto # None /\ patrimonio_netto # Zero
    THEN Divide(totali, patrimonio_netto)
    ELSE None

----------------------------------------------------------------------------
\* State shared by the specifications.

EmptyLoc ==
    [ricavi |-> None, utile |-> None, attivo |-> None,
     patrimonio_netto |-> None, debiti_breve |-> None, debiti_mlt |-> None,
     denominazione |-> None, codice_fiscale |-> None, anno |-> None,
     debiti_totali |-> None, roe |-> None, roa |-> None,
     debt_to_equity |-> None]

EmptySheet ==
    [denominazione |-> None, codice_fiscale |-> None, anno |-> None,
     ricavi |-> None, utile_netto |-> None, attivo |-> None,
     patrimonio_netto |-> None, debiti_finanziari_breve |-> None,
     debiti_finanziari_medio_lungo |-> None,
     debiti_finanziari_totale |-> None, roe_percentuale |-> None,
     roa_percentuale |-> None, debt_to_equity_ratio |-> None]

Documents ==
    {[ok |-> o, xmlns |-> x, items |-> i] :
        o \in BOOLEAN, x \in BOOLEAN, i \in ItemSeqs(MaxItems)}

----------------------------------------------------------------------------
\* A call estrai_dati_xbrl(file), lines 48-64 and the except clauses of
\* lines 209-214.  The uploaded file may have been read before the call,
\* so its position starts anywhere the earlier reads can have left it.

Init ==
    /\ doc \in Documents
    /\ pos \in {0, FileSize(doc)}
    /\ pc = "seek1"
    /\ root = <<>>
    /\ loc = EmptyLoc
    /\ ret = ""
    /\ sheet = EmptySheet
    /\ err = ""
    /\ text = <<>>
    /\ valore = None

\* return None from the except clause named (lines 209-214).
Raise(clause) ==
    /\ pc' = "done"
    /\ ret' = "None"
    /\ err' = clause
    /\ UNCHANGED <<doc, root, loc, sheet, text, valore>>

\* Line 50: file.seek(0).
Seek1 ==
    /\ pc = "seek1"
    /\ pos' = 0
    /\ pc' = "parse1"
    /\ UNCHANGED <<doc, root, loc, ret, sheet, err, text, valore>>

\* Lines 51-52: tree = ET.parse(file); root = tree.getroot().  The parser
\* reads from the file's position to end-of-file.
Parse1 ==
    /\ pc = "parse1"
    /\ pos' = FileSize(doc)
    /\ IF ParsesFrom(doc, pos)
       THEN /\ root' = Iter(doc.items)
            /\ pc' = "nsscan"
            /\ UNCHANGED <<doc, loc, ret, sheet, err, text, valore>>
       ELSE Raise("ParseError")

\* Lines 55-59: the loop over ET.iterparse(file, events=['start-ns']).  No
\* seek precedes it: the parser reads from where the file stands.  Each
\* start-ns event runs "prefix, uri = event", which unpacks the event name
\* 'start-ns' and raises ValueError.
NsScan ==
    /\ pc = "nsscan"
    /\ pos' = FileSize(doc)
    /\ IF ~ParsesFrom(doc, pos) THEN Raise("ParseError")
       ELSE IF DeclaresNamespace(doc) THEN Raise("Exception")
       ELSE /\ pc' = "seek2"
            /\ UNCHANGED <<doc, root, loc, ret, sheet, err, text, valore>>

Next == Seek1 \/ Parse1 \/ NsScan

Spec == Init /\ [][Next]_vars

----------------------------------------------------------------------------
\* The rest of estrai_dati_xbrl, lines 61-207, run on every document as
\* after a namespace scan that did not raise.  Under Spec no call gets this
\* far (NsScan always raises); these runs show what the remaining code
\* computes from a parsed root.

InitBody ==
    /\ doc \in {d \in Documents : d.ok /\ ~d.xmlns}
    /\ pos = FileSize(doc)
    /\ pc = "seek2"
    /\ root = Iter(doc.items)
    /\ loc = EmptyLoc
    /\ ret = ""
    /\ sheet = EmptySheet
    /\ err = ""
    /\ text = <<>>
    /\ valore = None

\* Line 62: file.seek(0).
Seek2 ==
    /\ pc = "seek2"
    /\ pos' = 0
    /\ pc' = "parse2"
    /\ UNCHANGED <<doc, root, loc, ret, sheet, err, text, valore>>

\* Lines 63-64: the second ET.parse.
Parse2 ==
    /\ pc = "parse2"
    /\ pos' = FileSize(doc)
    /\ IF ParsesFrom(doc, pos)
       THEN /\ root' = Iter(doc.items)
            /\ pc' = "estrai"
            /\ UNCHANGED <<doc, loc, ret, sheet, err, text, valore>>
       ELSE Raise("ParseError")

\* Lines 138-146: the eight concepts.
Estrai ==
    /\ pc = "estrai"
    /\ loc' = [loc EXCEPT
            !.ricavi = trova_valore_con_namespace(root, tag_mapping.ricavi),
            !.utile = trova_valore_con_namespace(root, tag_mapping.utile),
            !.attivo = trova_valore_con_namespace(root, tag_mapping.attivo),
            !.patrimonio_netto =
                trova_valore_con_namespace(root, tag_mapping.patrimonio_netto),
            !.debiti_breve =
                trova_valore_con_namespace(root, tag_mapping.debiti_breve),
            !.debiti_mlt =
                trova_valore_con_namespace(root, tag_mapping.debiti_mlt),
            !.denominazione =
                trova_testo_con_namespace(root, tag_mapping.denominazione),
            !.codice_fiscale =
                trova_testo_con_namespace(root, tag_mapping.codice_fiscale)]
    /\ pc' = "anno"
    /\ UNCHANGED <<doc, pos, root, ret, sheet, err, text, valore>>

\* Lines 148-171: the reporting year.
Anno ==
    /\ pc = "anno"
    /\ loc' = [loc EXCEPT !.anno = AnnoFrom(root)]
    /\ pc' = "indici"
    /\ UNCHANGED <<doc, pos, root, ret, sheet, err, text, valore>>

\* Lines 173-190: total debt and the three ratios.  A division that raises
\* is caught by "except Exception" (lines 212-214).
Indici ==
    /\ pc = "indici"
    /\ LET totali == debiti_totali(loc.debiti_breve, loc.debiti_mlt)
           roe == indice_percentuale(loc.utile, loc.patrimonio_netto)
           roa == indice_percentuale(loc.utile, loc.attivo)
           dte == debt_to_equity(totali, loc.patrimonio_netto)
       IN  IF ZeroDivisionError \in {roe, roa, dte}
           THEN Raise("Exception") /\ pos' = pos
           ELSE /\ loc' = [loc EXCEPT !.debiti_totali = totali, !.roe = roe,
                                      !.roa = roa, !.debt_to_equity = dte]
                /\ pc' = "return"
                /\ UNCHANGED <<doc, pos, root, ret, sheet, err, text, valore>>

\* Lines 192-207: the returned dict.
Return ==
    /\ pc = "return"
    /\ sheet' =
         [denominazione |-> loc.denominazione,
          codice_fiscale |-> loc.codice_fiscale,
          anno |-> loc.anno,
          ricavi |-> loc.ricavi,
          utile_netto |-> loc.utile,
          attivo |-> loc.attivo,
          patrimonio_netto |-> loc.patrimonio_netto,
          debiti_finanziari_breve |-> loc.debiti_breve,
          debiti_finanziari_medio_lungo |-> loc.debiti_mlt,
          debiti_finanziari_totale |-> loc.debiti_totali,
          roe_percentuale |-> loc.roe,
          roa_percentuale |-> loc.roa,
          debt_to_equity_ratio |-> loc.debt_to_equity]
    /\ ret' = "sheet"
    /\ pc' = "done"
    /\ UNCHANGED <<doc, pos, root, loc, err, text, valore>>

NextBody == Seek2 \/ Parse2 \/ Estrai \/ Anno \/ Indici \/ Return

SpecBody == InitBody /\ [][NextBody]_vars

----------------------------------------------------------------------------
\* Normalizer runs: pulisci_valore_numerico applied to every text of at
\* most MaxLen characters over NormAlphabet.

NormAlphabet == {"0", "2", "5", ".", ",", "-", " ", "a"}

RECURSIVE TextsUpTo(_)
TextsUpTo(n) ==
    IF n = 0 THEN {<<>>}
    ELSE LET shorter == TextsUpTo(n - 1)
         IN  shorter \cup {Append(s, c) : s \in shorter, c \in NormAlphabet}

InitNorm ==
    /\ text \in TextsUpTo(MaxLen)
    /\ valore = None
    /\ pc = "pulisci"
    /\ doc = [ok |-> TRUE, xmlns |-> FALSE, items |-> <<>>]
    /\ pos = 0
    /\ root = <<>>
    /\ loc = EmptyLoc
    /\ ret = ""
    /\ sheet = EmptySheet
    /\ err = ""

Pulisci ==
    /\ pc = "pulisci"
    /\ valore' = pulisci_valore_numerico(text)
    /\ pc' = "pulito"
    /\ UNCHANGED <<doc, pos, root, loc, ret, sheet, err, text>>

NextNorm == Pulisci

SpecNorm == InitNorm /\ [][NextNorm]_vars

----------------------------------------------------------------------------
\* Notions of the specification used to state the claims.

AllDigits(t) == \A i \in 1..Len(t) : t[i] \in Digits

\* A calendar date YYYY-MM-DD.
IsDate(t) ==
    /\ Len(t) = 10
    /\ t[5] = "-" /\ t[8] = "-"
    /\ AllDigits(SubSeq(t, 1, 4)) /\ AllDigits(SubSeq(t, 6, 7))
    /\ AllDigits(SubSeq(t, 9, 10))
    /\ DigitsToInt(SubSeq(t, 6, 7)) \in 1..12
    /\ DigitsToInt(SubSeq(t, 9, 10)) \in 1..31

YearOf(t) == DigitsToInt(SubSeq(t, 1, 4))

DateKey(t) ==
    YearOf(t) * 10000 + DigitsToInt(SubSeq(t, 6, 7)) * 100
        + DigitsToInt(SubSeq(t, 9, 10))

\* The positions of the contexts with a valid end date.
ValidContexts(d) ==
    {i \in 1..Len(d.items) :
        d.items[i].kind = "context" /\ IsDate(d.items[i].text)}

ContextYears(d) == {YearOf(d.items[i].text) : i \in ValidContexts(d)}

LatestYear(d) == CHOOSE y \in ContextYears(d) : \A z \in ContextYears(d) : z <= y

\* The authoritative context: the latest end date, the first in document
\* order among equals.
Authoritative(d) ==
    CHOOSE i \in ValidContexts(d) :
        \A j \in ValidContexts(d) :
            \/ DateKey(d.items[j].text) < DateKey(d.items[i].text)
            \/ (DateKey(d.items[j].text) = DateKey(d.items[i].text) /\ i <= j)

\* The sheet's monetary fields and text fields, with the concept of each.
MonetaryFields ==
    {"ricavi", "utile_netto", "attivo", "patrimonio_netto",
     "debiti_finanziari_breve", "debiti_finanziari_medio_lungo"}

TextFields == {"denominazione", "codice_fiscale"}

ConceptOf(f) ==
    CASE f = "utile_netto" -> "utile"
      [] f = "debiti_finanziari_breve" -> "debiti_breve"
      [] f = "debiti_finanziari_medio_lungo" -> "debiti_mlt"
      [] OTHER -> f

Aliases(f) == tag_mapping[ConceptOf(f)]

AliasSet(f) == {Aliases(f)[a] : a \in 1..Len(Aliases(f))}

\* No element of the document is named by an alias of the field's concept.
Absent(d, f) ==
    \A i \in 1..Len(Iter(d.items)) : Iter(d.items)[i].tag.local \notin AliasSet(f)

Returned == pc = "done" /\ ret = "sheet"

----------------------------------------------------------------------------
\* C1: for every well-formed input with at least one context with a valid
\* end date, estrai_dati_xbrl returns a fact sheet, never None, and each
\* concept absent from the document is a null field of that sheet.
C1_SheetForEveryValidInput ==
    (pc = "done" /\ doc.ok /\ ValidContexts(doc) # {})
        => /\ ret = "sheet"
           /\ \A f \in MonetaryFields \cup TextFields :
                Absent(doc, f) => sheet[f] = None

\* C2: for a document holding contexts with end dates in two different
\* years, the extracted anno is the later year, whatever the order of the
\* context nodes.
C2_AnnoIsLatestYear ==
    (pc = "done" /\ doc.ok /\ Cardinality(ContextYears(doc)) >= 2)
        => (ret = "sheet" /\ sheet.anno = <<LatestYear(doc)>>)

\* C3: for every well-formed document with no context with a valid end
\* date, extraction ends in the NoValidContext error and returns no sheet.
C3_NoValidContextError ==
    (pc = "done" /\ doc.ok /\ ValidContexts(doc) = {})
        => (ret = "None" /\ err = "NoValidContext")

Visits(f) == (1..Len(Aliases(f))) \X (1..Len(root))

Before(p, q) == p[1] < q[1] \/ (p[1] = q[1] /\ p[2] < q[2])

\* The visits where the element matches the alias and has non-empty
\* trimmed text, and those among them where the text normalizes.
TextHits(f) ==
    {p \in Visits(f) :
        /\ TagMatches(root[p[2]].tag, Aliases(f)[p[1]])
        /\ Strip(root[p[2]].text) # <<>>}

ValueHits(f) ==
    {p \in TextHits(f) : pulisci_valore_numerico(root[p[2]].text) # None}

First(H) == CHOOSE p \in H : \A q \in H : ~Before(q, p)

AsZero(x) == IF x = None THEN Zero ELSE x

\* C7: in every returned sheet total debt is null exactly when short-term
\* and long-term debt are both null, and otherwise is their sum with a null
\* addend counted as zero.
C7_TotalDebt ==
    Returned
        => LET b == sheet.debiti_finanziari_breve
               m == sheet.debiti_finanziari_medio_lungo
               t == sheet.debiti_finanziari_totale
           IN  /\ (t = None) <=> (b = None /\ m = None)
               /\ t # None
                    => t[1] * AsZero(b)[2] * AsZero(m)[2]
                         = t[2] * (AsZero(b)[1] * AsZero(m)[2]
                                     + AsZero(m)[1] * AsZero(b)[2])

\* A sheet with one debt null and the other not.
C7_Witness ==
    /\ Returned
    /\ sheet.debiti_finanziari_breve = None
    /\ sheet.debiti_finanziari_medio_lungo # None
    /\ sheet.debiti_finanziari_totale = sheet.debiti_finanziari_medio_lungo

\* The ratio q is k * num / den, or null when num is null or den is null
\* or zero.
IsRatio(q, num, den, k) ==
    /\ (q = None) <=> (num = None \/ den = None \/ den = Zero)
    /\ q # None => /\ q[2] # 0
                   /\ q[1] * den[1] * num[2] = k * num[1] * den[2] * q[2]

\* C8: computing the ratios never raises, and in every returned sheet ROE,
\* ROA and debt-to-equity are null exactly when the numerator is null or
\* the denominator is null or zero, and otherwise numerator / denominator
\* (times 100 for ROE and ROA).
C8_Ratios ==
    /\ pc = "done" => ret = "sheet"
    /\ Returned
         => /\ IsRatio(sheet.roe_percentuale, sheet.utile_netto,
                       sheet.patrimonio_netto, 100)
            /\ IsRatio(sheet.roa_percentuale, sheet.utile_netto,
                       sheet.attivo, 100)
            /\ IsRatio(sheet.debt_to_equity_ratio,
                       sheet.debiti_finanziari_totale,
                       sheet.patrimonio_netto, 1)

\* A sheet with a numerator and a zero denominator.
C8_Witness ==
    /\ Returned
    /\ sheet.utile_netto # None
    /\ sheet.patrimonio_netto = Zero
    /\ sheet.roe_percentuale = None
    /\ sheet.roa_percentuale # None

\* The normalizer algorithm, with the minus signs it keeps: the first
\* character only (leading), or every one.
Kept(t, leadingOnly) ==
    LET u == EuropeanToDecimal(Strip(t))
        keep == {i \in 1..Len(u) :
                    \/ u[i] \in Digits
                    \/ u[i] = "."
                    \/ (u[i] = "-" /\ (~leadingOnly \/ i = 1))}
        Nth(k) == CHOOSE i \in keep : Cardinality({j \in keep : j < i}) = k - 1
    IN  [k \in 1..Cardinality(keep) |-> u[Nth(k)]]

\* A decimal literal: an optional leading '-', digits with at most one
\* '.', at least one digit.
IsDecimal(s) ==
    LET from == IF s # <<>> /\ s[1] = "-" THEN 2 ELSE 1
        dots == {i \in from..Len(s) : s[i] = "."}
        digs == {i \in from..Len(s) : s[i] \in Digits}
    IN  /\ Cardinality(dots) <= 1
        /\ digs # {}
        /\ dots \cup digs = from..Len(s)

\* The value v = <<n, d>> is the number the decimal literal s denotes.
Denotes(v, s) ==
    LET from == IF s[1] = "-" THEN 2 ELSE 1
        digs == SelectChars(s, Digits)
        dots == {i \in 1..Len(s) : s[i] = "."}
        frac == IF dots = {} THEN 0 ELSE Len(s) - (CHOOSE i \in dots : TRUE)
    IN  /\ v # None
        /\ v[2] > 0
        /\ v[1] * Pow10(frac)
             = v[2] * (IF from = 2 THEN -1 ELSE 1) * DigitsToInt(digs)

Normalized(v, t, leadingOnly) ==
    LET s == Kept(t, leadingOnly)
    IN  IF s = <<>> \/ s = <<"-">> \/ ~IsDecimal(s)
        THEN v = None
        ELSE Denotes(v, s)

\* C9 as stated: after trimming, removing '.' and replacing ',' by '.',
\* only digits, '.' and a leading '-' are kept (a '-' elsewhere is
\* stripped); the result is null when empty, "-" or unparsable, and the
\* parsed number otherwise.
C9_LeadingMinusOnly ==
    pc = "pulito" => Normalized(valore, text, TRUE)

\* C9 amended: every '-' is kept, wherever it stands, so a text with a '-'
\* after its first kept character does not parse and yields null.
C9_EveryMinusKept ==
    pc = "pulito" => Normalized(valore, text, FALSE)

\* A text with digits and a '-' that is not leading: null.
C9_Witness ==
    /\ pc = "pulito"
    /\ valore = None
    /\ \E i \in 2..Len(text) :
         /\ text[i] = "-"
         /\ text[1] \in Digits

\* C10: every pass that reads the file within one call (the first
\* ET.parse, the ET.iterparse scan, the second ET.parse) starts with the
\* read position at 0.
C10_EveryPassStartsAtZero ==
    pc \in {"parse1", "nsscan", "parse2"} => pos = 0

====
